---- MODULE Spec2Model ----
(***************************************************************************)
(* Model of the quiz bot (src/bot.py): the topic and subscriber stores,    *)
(* the question generator and parser, the per-user session state kept in   *)
(* context.user_data, the command / button handlers and the daily          *)
(* broadcast job.                                                          *)
(*                                                                         *)
(* Text is modelled as a sequence of one-character strings, so that        *)
(* str.split, str.strip, str.startswith and str.replace are computed the   *)
(* way Python computes them.                                               *)
(***************************************************************************)
EXTENDS Naturals, Sequences, FiniteSets

\* ----------------------------------------------------------------- bounds
NumUsers == 2
MaxEvents == 3
MaxProse == 1

Users == 1..NumUsers

\* --------------------------------------------------------------- strings
NL == "\n"
WS == {" ", "\t", "\r", NL}

StartsWith(s, p) ==
    /\ Len(s) >= Len(p)
    /\ SubSeq(s, 1, Len(p)) = p

RECURSIVE LStrip(_)
LStrip(s) ==
    IF s # <<>> /\ Head(s) \in WS THEN LStrip(Tail(s)) ELSE s

RECURSIVE RStrip(_)
RStrip(s) ==
    IF s # <<>> /\ s[Len(s)] \in WS THEN RStrip(SubSeq(s, 1, Len(s) - 1)) ELSE s

Strip(s) == RStrip(LStrip(s))

\* str.replace(old, ""): every non-overlapping occurrence of old, left to right
RECURSIVE Replace(_, _)
Replace(s, old) ==
    IF Len(s) < Len(old) THEN s
    ELSE IF StartsWith(s, old)
         THEN Replace(SubSeq(s, Len(old) + 1, Len(s)), old)
         ELSE <<Head(s)>> \o Replace(Tail(s), old)

\* s in t  (substring test)
RECURSIVE Contains(_, _)
Contains(s, sub) ==
    IF Len(s) < Len(sub) THEN FALSE
    ELSE StartsWith(s, sub) \/ Contains(Tail(s), sub)

\* str.split('\n')
RECURSIVE SplitFrom(_, _)
SplitFrom(s, cur) ==
    IF s = <<>> THEN <<cur>>
    ELSE IF Head(s) = NL
         THEN <<cur>> \o SplitFrom(Tail(s), <<>>)
         ELSE SplitFrom(Tail(s), Append(cur, Head(s)))

SplitLines(s) == SplitFrom(s, <<>>)

RECURSIVE JoinLines(_)
JoinLines(ls) ==
    IF ls = <<>> THEN <<>>
    ELSE IF Len(ls) = 1 THEN ls[1]
         ELSE ls[1] \o <<NL>> \o JoinLines(Tail(ls))

\* --------------------------------------------------- recognized prefixes
PQuestion == <<"Q","u","e","s","t","i","o","n",":">>
PA == <<"A",")">>
PB == <<"B",")">>
PC == <<"C",")">>
PD == <<"D",")">>
PCorrect == <<"C","o","r","r","e","c","t"," ","A","n","s","w","e","r",":">>
PExplanation == <<"E","x","p","l","a","n","a","t","i","o","n",":">>

LA == <<"A">>
LB == <<"B">>
LC == <<"C">>
LD == <<"D">>
Labels == {LA, LB, LC, LD}

\* dict item assignment  d[k] = v
DictSet(d, k, v) ==
    [x \in (DOMAIN d) \cup {k} |-> IF x = k THEN v ELSE d[x]]

EmptyDict == [x \in {} |-> <<>>]

EmptyParse ==
    [question |-> <<>>, options |-> EmptyDict,
     correct_answer |-> <<>>, explanation |-> <<>>]

\* one pass of the for-loop body of parse_question
ParseLine(acc, raw) ==
    LET line == Strip(raw) IN
    IF StartsWith(line, PQuestion)
    THEN [acc EXCEPT !.question = Strip(Replace(line, PQuestion))]
    ELSE IF StartsWith(line, PA)
    THEN [acc EXCEPT !.options = DictSet(@, LA, Strip(Replace(line, PA)))]
    ELSE IF StartsWith(line, PB)
    THEN [acc EXCEPT !.options = DictSet(@, LB, Strip(Replace(line, PB)))]
    ELSE IF StartsWith(line, PC)
    THEN [acc EXCEPT !.options = DictSet(@, LC, Strip(Replace(line, PC)))]
    ELSE IF StartsWith(line, PD)
    THEN [acc EXCEPT !.options = DictSet(@, LD, Strip(Replace(line, PD)))]
    ELSE IF StartsWith(line, PCorrect)
    THEN [acc EXCEPT !.correct_answer = Strip(Replace(line, PCorrect))]
    ELSE IF StartsWith(line, PExplanation)
    THEN [acc EXCEPT !.explanation = Strip(Replace(line, PExplanation))]
    ELSE acc

RECURSIVE ParseLines(_, _)
ParseLines(acc, lines) ==
    IF lines = <<>> THEN acc
    ELSE ParseLines(ParseLine(acc, Head(lines)), Tail(lines))

parse_question(question_text) ==
    ParseLines(EmptyParse, SplitLines(question_text))

\* a completeness check that forgets the correct label
CompleteNoAnswer(parsed) ==
    /\ parsed.question # <<>>
    /\ DOMAIN parsed.options # {}

\* `not parsed or not all([question, options, correct_answer])`, negated.
\* parse_question returns None only from its except branch, which no str
\* input reaches, so `parsed` is always a record here.
Complete(parsed) ==
    /\ parsed.question # <<>>
    /\ DOMAIN parsed.options # {}
    /\ parsed.correct_answer # <<>>

\* ------------------------------------------------- text-generation service
\* A response of the completion endpoint: content on success, or the message
\* of the exception it raised.
ErrPrefix ==
    <<"E","r","r","o","r"," ","g","e","n","e","r","a","t","i","n","g"," ",
      "q","u","e","s","t","i","o","n",":"," ">>

generate_question(topic, resp) ==
    IF resp.ok THEN Strip(resp.text) ELSE ErrPrefix \o resp.text

BasicPrefix ==
    <<"B","a","s","i","c"," ","e","x","p","l","a","n","a","t","i","o","n",":"," ">>

generate_detailed_explanation(topic, question, correct_option, explanation, resp) ==
    IF resp.ok THEN Strip(resp.text) ELSE BasicPrefix \o explanation

\* the generator outputs the model draws from
TxtGood ==
    JoinLines(<< PQuestion \o <<" ","q">>,
                 PA \o <<" ","a">>, PB \o <<" ","b">>,
                 PC \o <<" ","c">>, PD \o <<" ","d">>,
                 PCorrect \o <<" ","B">>,
                 PExplanation \o <<" ","e">> >>)
TxtNoCorrect ==
    JoinLines(<< PQuestion \o <<" ","q">>, PA \o <<" ","a">>, PB \o <<" ","b">> >>)
TxtBadKey ==
    JoinLines(<< PQuestion \o <<" ","r">>, PA \o <<" ","a">>, PCorrect \o <<" ","C">> >>)
ErrTimeout == <<"t","i","m","e","o","u","t">>
\* an exception message of several lines that quotes contract lines
ErrEcho ==
    JoinLines(<< <<"4","0","0">>, PQuestion \o <<" ","s">>,
                 PA \o <<" ","a">>, PB \o <<" ","b">>,
                 PC \o <<" ","c">>, PD \o <<" ","d">>,
                 PCorrect \o <<" ","A">> >>)

QuizResponses ==
    { [ok |-> TRUE, text |-> TxtGood],
      [ok |-> TRUE, text |-> TxtNoCorrect],
      [ok |-> TRUE, text |-> TxtBadKey],
      [ok |-> FALSE, text |-> ErrTimeout],
      [ok |-> FALSE, text |-> ErrEcho] }

ExplainOk == [ok |-> TRUE, text |-> <<"w","h","y">>]
ExplainResponses == { ExplainOk, [ok |-> FALSE, text |-> ErrTimeout] }

\* ------------------------------------------------------------ inputs
DefaultTopic == <<"C","+","+">>
UnknownTopic == <<"U","n","k","n","o","w","n">>
MinTopicLen == 2
MaxTopicLen == 100

\* message texts: a plain topic, a padded one, one too short, one too long,
\* and one of MaxTopicLen characters followed by a blank
TopicInputs ==
    { <<"G","o">>, <<" ","P","y"," ">>, <<"x">>,
      [i \in 1..(MaxTopicLen + 1) |-> "y"],
      [i \in 1..MaxTopicLen |-> "y"] \o <<" ">> }

PAnswer == <<"a","n","s","w","e","r","_">>
DataExplain == <<"e","x","p","l","a","i","n">>
ButtonData == { PAnswer \o l : l \in Labels } \cup { DataExplain }

\* dict.get(k, default)
DictGet(d, k, default) == IF k \in DOMAIN d THEN d[k] ELSE default

\* dict.pop(k, None)
DictPop(d, k) == [x \in (DOMAIN d) \ {k} |-> d[x]]

\* list.remove(x): the first occurrence
RECURSIVE ListRemove(_, _)
ListRemove(l, x) ==
    IF l = <<>> THEN <<>>
    ELSE IF Head(l) = x THEN Tail(l)
         ELSE <<Head(l)>> \o ListRemove(Tail(l), x)

Elems(l) == { l[i] : i \in 1..Len(l) }

\* ------------------------------------------------------------- state
VARIABLES
    topic_file,        \* topic_store.json: dict user -> topic
    subscribers_file,  \* subscribers.json: list of users
    user_data,         \* context.user_data of each user: a dict
    job,               \* the running send_daily_quiz coroutine, if any
    blocked,           \* users who have blocked the bot (chat transport)
    sent,              \* question messages with buttons shown to users
    reply,             \* outcome of the last handled update
    run,               \* history of the current / last broadcast run, and
                       \* of the subscriptions changed since it started
    nEvents,           \* number of updates handled
    ptext,             \* parser input: lines of the contract text
    pout               \* parser output: parse_question's result on ptext

vars == <<topic_file, subscribers_file, user_data, job, blocked, sent, reply,
          run, nEvents, ptext, pout>>

parserVars == <<ptext, pout>>

NoJob ==
    [pc |-> "idle", subscribers |-> <<>>, topics |-> EmptyDict, idx |-> 0,
     user_id |-> 0, topic |-> <<>>, parsed |-> EmptyParse]

\* reply: who was answered by which handler and with what (kind, msg: the
\* question message sent or pressed, selected / correct / text: the labels and
\* text the message names), and what the handler had in hand (input: the
\* text of the message, data: the button payload, gen_failed: the generation call raised, had_quiz / quiz:
\* the question parsed or read from the session state).
NoReply ==
    [to |-> 0, cmd |-> "none", kind |-> "none", msg |-> 0, input |-> <<>>,
     data |-> <<>>, gen_failed |-> FALSE, had_quiz |-> FALSE, quiz |-> EmptyParse,
     selected |-> <<>>, correct |-> <<>>, text |-> <<>>]

NotParsed == [ran |-> FALSE, parsed |-> EmptyParse]

NoRun ==
    [n |-> 0, start |-> <<>>, received |-> [u \in Users |-> 0],
     invalid |-> {}, failed |-> {}, clean |-> FALSE, done |-> FALSE,
     wants |-> [u \in Users |-> "none"]]

Init ==
    /\ topic_file = EmptyDict
    /\ subscribers_file = <<>>
    /\ user_data = [u \in Users |-> EmptyDict]
    /\ job = NoJob
    /\ blocked = {}
    /\ sent = <<>>
    /\ reply = NoReply
    /\ run = NoRun
    /\ nEvents = 0
    /\ ptext = <<>>
    /\ pout = NotParsed

\* An update of user u is dispatched: updates are handled one at a time, and
\* only while the broadcast job is not running or is suspended in its await.
\* nEvents counts the inbound events (updates and daily ticks) taken so far.
Accept(u) ==
    /\ nEvents < MaxEvents
    /\ u \notin blocked
    /\ job.pc # "loop"
    /\ nEvents' = nEvents + 1
    /\ UNCHANGED <<blocked, job, parserVars>>

Dispatch(u) ==
    /\ Accept(u)
    /\ run' = [run EXCEPT !.clean = FALSE]

Say(u, cmd, kind) == [NoReply EXCEPT !.to = u, !.cmd = cmd, !.kind = kind]

\* ------------------------------------------------------ chat transport
\* A user blocks the bot in their chat client.  The program is not told; from
\* then on send_message to that chat raises Forbidden and the user sends no
\* more updates.  Only a subscriber's block is tracked: a blocked user who is
\* not subscribed is never written to and is simply a user who stays silent.
block_bot(u) ==
    /\ u \notin blocked
    /\ u \in Elems(subscribers_file) \cup Elems(job.subscribers)
    /\ job.pc # "loop"
    /\ blocked' = blocked \cup {u}
    /\ run' = [run EXCEPT !.clean = FALSE]
    /\ UNCHANGED <<topic_file, subscribers_file, user_data, job, sent, reply,
                   nEvents, parserVars>>

\* --------------------------------------------------------- handlers
modify(u) ==
    /\ Dispatch(u)
    /\ user_data' = [user_data EXCEPT ![u] = DictSet(@, "awaiting_topic", TRUE)]
    /\ reply' = Say(u, "modify", "enter_topic")
    /\ UNCHANGED <<topic_file, subscribers_file, sent>>

mytopic(u) ==
    /\ Dispatch(u)
    /\ reply' = [Say(u, "mytopic", "your_topic") EXCEPT
                    !.text = DictGet(topic_file, u, DefaultTopic)]
    /\ UNCHANGED <<topic_file, subscribers_file, user_data, sent>>

\* a save that never reaches the file
SaveTopicNowhere(topics, user_id, topic) == topics

\* `topics[user_id] = topic; save_topics(topics)`
SaveTopic(topics, user_id, topic) == DictSet(topics, user_id, topic)

\* a validation that only looks at the lower bound
TopicTooShort(topic) == Len(topic) < MinTopicLen

\* `len(topic) < 2 or len(topic) > 100`
TopicOutOfRange(topic) == Len(topic) < MinTopicLen \/ Len(topic) > MaxTopicLen

handle_topic_message(u, text) ==
    /\ Dispatch(u)
    /\ LET topic == Strip(text)
           said(kind) == [Say(u, "handle_topic_message", kind) EXCEPT
                             !.input = text]
       IN IF ~DictGet(user_data[u], "awaiting_topic", FALSE)
          THEN /\ reply' = said("none")
               /\ UNCHANGED <<topic_file, user_data>>
          ELSE IF TopicOutOfRange(topic)
          THEN /\ reply' = said("topic_rejected")
               /\ UNCHANGED <<topic_file, user_data>>
          ELSE /\ topic_file' = SaveTopic(topic_file, u, topic)
               /\ user_data' = [user_data EXCEPT
                                   ![u] = DictSet(@, "awaiting_topic", FALSE)]
               /\ reply' = [said("topic_saved") EXCEPT !.text = topic]
    /\ UNCHANGED <<subscribers_file, sent>>

\* whether session state ud holds question q
Holds(ud, q) == "current_quiz" \in DOMAIN ud /\ ud["current_quiz"] = q

\* a store that replaces the whole session state
StoreQuizFresh(ud, parsed, topic) ==
    DictSet(DictSet(EmptyDict, "current_quiz", parsed), "topic", topic)

\* what quiz stores under "current_quiz" and "topic" once the question passed
\* the completeness check
StoreQuiz(ud, parsed, topic) ==
    DictSet(DictSet(ud, "current_quiz", parsed), "topic", topic)

quiz(u, resp) ==
    /\ Dispatch(u)
    /\ LET topic == DictGet(topic_file, u, DefaultTopic)
           question_text == generate_question(topic, resp)
           parsed == parse_question(question_text)
       IN IF ~Complete(parsed)
          THEN /\ reply' = [Say(u, "quiz", "generation_error") EXCEPT
                               !.gen_failed = ~resp.ok, !.quiz = parsed]
               /\ UNCHANGED <<user_data, sent>>
          ELSE /\ user_data' = [user_data EXCEPT
                                   ![u] = StoreQuiz(@, parsed, topic)]
               /\ sent' = Append(sent, [to |-> u, via |-> "quiz", topic |-> topic,
                                        quiz |-> parsed,
                                        stored |-> Holds(user_data'[u], parsed)])
               /\ reply' = [Say(u, "quiz", "question") EXCEPT
                               !.msg = Len(sent) + 1, !.gen_failed = ~resp.ok,
                               !.quiz = parsed]
    /\ UNCHANGED <<topic_file, subscribers_file>>

\* a pop on state shared by all users instead of the user's own
ClearQuizAll(ud, u) == [v \in DOMAIN ud |-> DictPop(ud[v], "current_quiz")]

\* the session state after `context.user_data.pop("current_quiz", None)`
ClearQuiz(ud, u) == [ud EXCEPT ![u] = DictPop(@, "current_quiz")]

\* The outcome of handle_answer's body for a stored question: the message it
\* replies with, or the KeyError that a lookup in current_quiz['options']
\* raises before anything is sent.
AnswerOutcome(current_quiz, topic, data, resp) ==
    LET options == current_quiz.options
        correct == current_quiz.correct_answer
        selected == Replace(data, PAnswer)
    IN IF data = DataExplain
       THEN IF correct \notin DOMAIN options
            THEN [kind |-> "KeyError", selected |-> <<>>, correct |-> <<>>,
                  text |-> <<>>]
            ELSE [kind |-> "explanation", selected |-> <<>>, correct |-> correct,
                  text |-> generate_detailed_explanation(
                               topic, current_quiz.question,
                               correct \o <<")", " ">> \o options[correct],
                               current_quiz.explanation, resp)]
       ELSE IF selected = correct
       THEN IF selected \notin DOMAIN options
            THEN [kind |-> "KeyError", selected |-> <<>>, correct |-> <<>>,
                  text |-> <<>>]
            ELSE [kind |-> "correct", selected |-> selected, correct |-> correct,
                  text |-> current_quiz.explanation]
       ELSE IF selected \notin DOMAIN options \/ correct \notin DOMAIN options
            THEN [kind |-> "KeyError", selected |-> <<>>, correct |-> <<>>,
                  text |-> <<>>]
            ELSE [kind |-> "incorrect", selected |-> selected, correct |-> correct,
                  text |-> current_quiz.explanation]

\* a handler that goes on without looking for the stored question
QuizAssumed(ud) == FALSE

\* `current_quiz = context.user_data.get("current_quiz")`, `not current_quiz`
NoActiveQuiz(ud) == "current_quiz" \notin DOMAIN ud

\* A press of button `data` under question message m.
handle_answer(u, m, data, resp) ==
    /\ Dispatch(u)
    /\ m \in 1..Len(sent)
    /\ sent[m].to = u
    /\ data # DataExplain => resp = ExplainOk
    /\ IF NoActiveQuiz(user_data[u])
       THEN /\ reply' = [Say(u, "handle_answer", "no_active_quiz") EXCEPT
                            !.msg = m, !.data = data]
            /\ UNCHANGED user_data
       ELSE LET current_quiz == DictGet(user_data[u], "current_quiz", EmptyParse)
                topic == DictGet(user_data[u], "topic", UnknownTopic)
                out == AnswerOutcome(current_quiz, topic, data, resp)
            IN /\ reply' = [Say(u, "handle_answer", out.kind) EXCEPT
                               !.msg = m, !.data = data, !.had_quiz = TRUE,
                               !.quiz = current_quiz, !.selected = out.selected,
                               !.correct = out.correct, !.text = out.text]
               /\ user_data' = IF out.kind = "KeyError"
                               THEN user_data
                               ELSE ClearQuiz(user_data, u)
    /\ UNCHANGED <<topic_file, subscribers_file, sent>>

\* a membership test that never finds the user
NeverSubscribed(subscribers, user_id) == FALSE

\* `user_id in subscribers`
IsSubscribed(subscribers, user_id) == user_id \in Elems(subscribers)

subscribe_daily(u) ==
    /\ Accept(u)
    /\ LET subscribers == subscribers_file IN
       IF ~IsSubscribed(subscribers, u)
       THEN /\ subscribers_file' = Append(subscribers, u)
            /\ reply' = Say(u, "subscribe_daily", "subscribed")
            /\ run' = [run EXCEPT !.clean = FALSE, !.wants[u] = "in"]
       ELSE /\ reply' = Say(u, "subscribe_daily", "already_subscribed")
            /\ run' = [run EXCEPT !.clean = FALSE]
            /\ UNCHANGED subscribers_file
    /\ UNCHANGED <<topic_file, user_data, sent>>

unsubscribe_daily(u) ==
    /\ Accept(u)
    /\ LET subscribers == subscribers_file IN
       IF u \in Elems(subscribers)
       THEN /\ subscribers_file' = ListRemove(subscribers, u)
            /\ reply' = Say(u, "unsubscribe_daily", "unsubscribed")
            /\ run' = [run EXCEPT !.clean = FALSE, !.wants[u] = "out"]
       ELSE /\ reply' = Say(u, "unsubscribe_daily", "not_subscribed")
            /\ run' = [run EXCEPT !.clean = FALSE]
            /\ UNCHANGED subscribers_file
    /\ UNCHANGED <<topic_file, user_data, sent>>

\* ------------------------------------------------- daily broadcast job
\* send_daily_quiz runs as a coroutine of the job queue.  Its only await is
\* send_message: from there it is suspended (pc = "send") and updates may be
\* handled; everything else runs without yielding (pc = "loop").

\* `"bot was blocked" in str(e).lower()`
BotWasBlocked == <<"b","o","t"," ","w","a","s"," ","b","l","o","c","k","e","d">>
ExcForbidden ==
    <<"f","o","r","b","i","d","d","e","n",":"," ">> \o BotWasBlocked
    \o <<" ","b","y"," ","t","h","e"," ","u","s","e","r">>
ExcTimedOut == <<"t","i","m","e","d"," ","o","u","t">>

\* what send_message does for chat u: "" (delivered) or the lower-cased
\* message of the exception it raises
DeliveryResults(u) ==
    IF u \in blocked THEN { ExcForbidden } ELSE { <<>>, ExcTimedOut }

send_daily_quiz_begin ==
    /\ job.pc = "idle"
    /\ nEvents < MaxEvents
    /\ nEvents' = nEvents + 1
    /\ LET subscribers == subscribers_file
           topics == topic_file
       IN /\ job' = IF subscribers = <<>>
                    THEN NoJob
                    ELSE [NoJob EXCEPT !.pc = "loop",
                                       !.subscribers = subscribers,
                                       !.topics = topics]
          /\ run' = [NoRun EXCEPT !.n = run.n + 1, !.start = subscribers,
                                  !.clean = TRUE, !.done = (subscribers = <<>>)]
    /\ UNCHANGED <<topic_file, subscribers_file, user_data, blocked, sent, reply,
                   parserVars>>

\* the list iterator of `for user_id in subscribers` is exhausted
send_daily_quiz_end ==
    /\ job.pc = "loop"
    /\ job.idx >= Len(job.subscribers)
    /\ job' = NoJob
    /\ run' = [run EXCEPT !.done = TRUE]
    /\ UNCHANGED <<topic_file, subscribers_file, user_data, blocked, sent, reply,
                   nEvents, parserVars>>

\* one iteration up to `continue` or to the await of send_message
send_daily_quiz_next(resp) ==
    /\ job.pc = "loop"
    /\ job.idx < Len(job.subscribers)
    /\ LET user_id == job.subscribers[job.idx + 1]
           topic == DictGet(job.topics, user_id, DefaultTopic)
           question_text == generate_question(topic, resp)
           parsed == parse_question(question_text)
       IN IF ~Complete(parsed)
          THEN /\ job' = [job EXCEPT !.idx = @ + 1]
               /\ run' = [run EXCEPT !.invalid = @ \cup {user_id}]
          ELSE /\ job' = [job EXCEPT !.idx = @ + 1, !.pc = "send",
                                     !.user_id = user_id, !.topic = topic,
                                     !.parsed = parsed]
               /\ UNCHANGED run
    /\ UNCHANGED <<topic_file, subscribers_file, user_data, blocked, sent, reply,
                   nEvents, parserVars>>

\* the list the except branch saves
Pruned(subscribers, user_id) == ListRemove(subscribers, user_id)

\* send_message returns or raises; the except branch of the loop body
send_daily_quiz_deliver(exc) ==
    /\ job.pc = "send"
    /\ exc \in DeliveryResults(job.user_id)
    /\ LET u == job.user_id IN
       IF exc = <<>>
       THEN /\ sent' = Append(sent, [to |-> u, via |-> "daily", topic |-> job.topic,
                                     quiz |-> job.parsed,
                                     stored |-> Holds(user_data[u], job.parsed)])
            /\ run' = [run EXCEPT !.received[u] = @ + 1]
            /\ job' = [job EXCEPT !.pc = "loop", !.user_id = 0, !.topic = <<>>,
                                  !.parsed = EmptyParse]
            /\ UNCHANGED subscribers_file
       ELSE IF Contains(exc, BotWasBlocked)
       THEN /\ subscribers_file' = Pruned(job.subscribers, u)
            /\ job' = [job EXCEPT !.pc = "loop", !.user_id = 0, !.topic = <<>>,
                                  !.parsed = EmptyParse,
                                  !.subscribers = Pruned(job.subscribers, u)]
            /\ run' = [run EXCEPT !.failed = @ \cup {u}]
            /\ UNCHANGED sent
       ELSE /\ job' = [job EXCEPT !.pc = "loop", !.user_id = 0, !.topic = <<>>,
                                  !.parsed = EmptyParse]
            /\ run' = [run EXCEPT !.failed = @ \cup {u}]
            /\ UNCHANGED <<subscribers_file, sent>>
    /\ UNCHANGED <<topic_file, user_data, blocked, reply, nEvents, parserVars>>

\* ----------------------------------------------------- specification
Next ==
    \/ \E u \in Users : block_bot(u)
    \/ \E u \in Users : modify(u)
    \/ \E u \in Users : mytopic(u)
    \/ \E u \in Users, text \in TopicInputs : handle_topic_message(u, text)
    \/ \E u \in Users, resp \in QuizResponses : quiz(u, resp)
    \/ \E u \in Users, m \in 1..Len(sent), data \in ButtonData,
          resp \in ExplainResponses : handle_answer(u, m, data, resp)
    \/ \E u \in Users : subscribe_daily(u)
    \/ \E u \in Users : unsubscribe_daily(u)
    \/ send_daily_quiz_begin
    \/ \E resp \in QuizResponses : send_daily_quiz_next(resp)
    \/ \E exc \in {<<>>, ExcForbidden, ExcTimedOut} : send_daily_quiz_deliver(exc)
    \/ send_daily_quiz_end

Spec == Init /\ [][Next]_vars

\* ------------------------------------------------ parser on contract text
\* The text handed to parse_question is put together line by line, in any
\* order: each recognized line at most once, and up to MaxProse other lines.
mainVars ==
    <<topic_file, subscribers_file, user_data, job, blocked, sent, reply, run,
      nEvents>>

Prefixes == {PQuestion, PA, PB, PC, PD, PCorrect, PExplanation}

Bodies(p) ==
    IF p = PA THEN { <<" ","a">>, <<" ","f","(","A",")">> }
    ELSE IF p = PQuestion THEN { <<" ","q","?">> }
    ELSE IF p = PB THEN { <<" ","b">> }
    ELSE IF p = PC THEN { <<" ","c">> }
    ELSE IF p = PD THEN { <<" ","d"," ">> }
    ELSE IF p = PCorrect THEN { <<" ","B">> }
    ELSE { <<" ","e">> }

ProseLines == { <<"S","u","r","e","!">> }

HasLine(lines, p) == \E i \in 1..Len(lines) : StartsWith(Strip(lines[i]), p)

IsProse(line) == \A p \in Prefixes : ~StartsWith(Strip(line), p)

NumProse(lines) == Cardinality({ i \in 1..Len(lines) : IsProse(lines[i]) })

put_line(p, body) ==
    /\ ~pout.ran
    /\ ~HasLine(ptext, p)
    /\ ptext' = Append(ptext, p \o body)
    /\ UNCHANGED <<pout, mainVars>>

put_prose(line) ==
    /\ ~pout.ran
    /\ NumProse(ptext) < MaxProse
    /\ ptext' = Append(ptext, line)
    /\ UNCHANGED <<pout, mainVars>>

run_parse ==
    /\ ~pout.ran
    /\ pout' = [ran |-> TRUE, parsed |-> parse_question(JoinLines(ptext))]
    /\ UNCHANGED <<ptext, mainVars>>

NextParse ==
    \/ \E p \in Prefixes : \E body \in Bodies(p) : put_line(p, body)
    \/ \E line \in ProseLines : put_prose(line)
    \/ run_parse

SpecParse == Init /\ [][NextParse]_vars

\* ------------------------------------------- a later point of the same run
\* The bot some time after start-up: every user has sent /subscribe_daily (in
\* the order of their ids) and then /modify, and nothing else has happened.
InitSubscribed ==
    /\ topic_file = EmptyDict
    /\ subscribers_file = [i \in 1..NumUsers |-> i]
    /\ user_data = [u \in Users |-> DictSet(EmptyDict, "awaiting_topic", TRUE)]
    /\ job = NoJob
    /\ blocked = {}
    /\ sent = <<>>
    /\ reply = NoReply
    /\ run = NoRun
    /\ nEvents = 0
    /\ ptext = <<>>
    /\ pout = NotParsed

SpecSubscribed == InitSubscribed /\ [][Next]_vars

\* ============================================================ properties
HasQuiz(u) == "current_quiz" \in DOMAIN user_data[u]

Pressed == reply.cmd = "handle_answer"

\* the step handles an update (and is not a daily tick)
Handled == nEvents' = nEvents + 1 /\ run'.n = run.n

Filter(l, S) == SelectSeq(l, LAMBDA x : x \in S)

\* C1: when a broadcast run has finished, every subscriber of the list it
\* started with whose question passed validation and whose delivery did not
\* fail has received the question exactly once.
C1_EveryoneElseReceives ==
    run.done =>
        \A u \in Elems(run.start) :
            (u \notin run.invalid /\ u \notin run.failed /\ u \notin blocked)
                => run.received[u] = 1

\* C2: when a broadcast run has finished with nothing else happening since it
\* started, the subscriber store is the list the run started with minus
\* exactly the recipients who have blocked the bot (a recipient whose
\* generation failed is not written to, and stays).
C2_StoreMinusBlocked ==
    (run.done /\ run.clean) =>
        subscribers_file = Filter(run.start, Users \ (blocked \ run.invalid))

\* C3: once a button press (answer_A..answer_D or explain) of a user has been
\* handled, that user's session state holds no question.
C3_ClearedAfterPress ==
    Pressed => ~HasQuiz(reply.to)

\* C4: a press is only ever processed on a question message whose question
\* was committed to the recipient's session state when the message was sent.
C4_StoredBeforePress ==
    Pressed => sent[reply.msg].stored

\* C5: with a stored question of correct label c, handling answer_s yields
\* the success result iff s = c, and otherwise the failure result naming s and
\* c with the stored short explanation.
C5_Grading ==
    (Pressed /\ reply.had_quiz /\ reply.data # DataExplain) =>
        LET s == SubSeq(reply.data, Len(PAnswer) + 1, Len(reply.data))
            c == reply.quiz.correct_answer
        IN /\ (reply.kind = "correct") <=> (s = c)
           /\ s # c => /\ reply.kind = "incorrect"
                       /\ reply.selected = s
                       /\ reply.correct = c
                       /\ reply.text = reply.quiz.explanation

NonEmptyQuestion(q) ==
    /\ q.question # <<>>
    /\ DOMAIN q.options # {}
    /\ q.correct_answer # <<>>

\* C6: every question held in a session state, and every question rendered
\* to a user by /quiz or by the broadcast (or about to be, the job being
\* suspended in send_message), has a non-empty stem, a non-empty options
\* mapping and a non-empty correct label.
C6_ShownQuestionsComplete ==
    /\ \A u \in Users : HasQuiz(u) => NonEmptyQuestion(user_data[u]["current_quiz"])
    /\ \A m \in 1..Len(sent) : NonEmptyQuestion(sent[m].quiz)
    /\ job.pc = "send" => NonEmptyQuestion(job.parsed)

C6_Witness ==
    /\ \E u \in Users : HasQuiz(u)
    /\ \E m \in 1..Len(sent) : sent[m].via = "daily"
    /\ \E m \in 1..Len(sent) : sent[m].via = "quiz"

\* C7: a /quiz whose generation call failed, or whose parsed output lacks the
\* stem, all options or the correct label, replies the generic error, renders
\* no question and leaves the session state as it was.
C7_FailedGenerationRejected ==
    [][ (/\ Handled
         /\ reply'.cmd = "quiz"
         /\ \/ reply'.gen_failed
            \/ ~NonEmptyQuestion(reply'.quiz))
        => (/\ reply'.kind = "generation_error"
            /\ sent' = sent
            /\ user_data' = user_data) ]_vars

\* C8: a button press handled against a stored question ends with a result
\* message, never with an exception escaping the handler.
C8_NoUnhandledFailure ==
    (Pressed /\ reply.had_quiz) =>
        reply.kind \in {"explanation", "correct", "incorrect"}

\* C9: a user's session state changes only in a step that handles an update
\* of that same user; the question /quiz stores is stored for the requesting
\* user, and the question a press is graded or explained against is the one
\* held for the pressing user.
C9_SessionIsolation ==
    [][ /\ \A v \in Users :
              user_data'[v] # user_data[v] => (Handled /\ reply'.to = v)
        /\ (Handled /\ reply'.cmd = "quiz" /\ reply'.kind = "question")
              => Holds(user_data'[reply'.to], reply'.quiz)
        /\ (Handled /\ reply'.cmd = "handle_answer" /\ reply'.had_quiz)
              => Holds(user_data[reply'.to], reply'.quiz) ]_vars

C9_Witness ==
    /\ Pressed
    /\ reply.kind \in {"explanation", "correct", "incorrect"}
    /\ ~HasQuiz(reply.to)
    /\ \E v \in Users \ {reply.to} : HasQuiz(v)

\* the field the line with prefix p carries: what follows the prefix, trimmed
Carried(lines, p) ==
    LET line == Strip(lines[CHOOSE i \in 1..Len(lines) : StartsWith(Strip(lines[i]), p)])
    IN Strip(SubSeq(line, Len(p) + 1, Len(line)))

\* C10: for a text holding each recognized line once, in any order and with
\* prose lines in between, parse_question returns exactly the stem, the four
\* option texts, the correct label and the explanation the lines carry.
C10_ParserRoundTrip ==
    (pout.ran /\ \A p \in Prefixes : HasLine(ptext, p)) =>
        pout.parsed =
            [question |-> Carried(ptext, PQuestion),
             options |-> [l \in Labels |-> Carried(ptext, l \o <<")">>)],
             correct_answer |-> Carried(ptext, PCorrect),
             explanation |-> Carried(ptext, PExplanation)]

\* C11: for a text with no line starting with "Correct Answer:",
\* parse_question returns a result whose correct label is empty and whose
\* other fields are the ones found (an option per option line, no stem or
\* explanation without their line), and the completeness check of /quiz and of
\* the broadcast rejects the result.
C11_NoCorrectLineRejected ==
    (pout.ran /\ ~HasLine(ptext, PCorrect)) =>
        /\ pout.parsed.correct_answer = <<>>
        /\ DOMAIN pout.parsed.options
              = { l \in Labels : HasLine(ptext, l \o <<")">>) }
        /\ HasLine(ptext, PQuestion) <=> pout.parsed.question # <<>>
        /\ HasLine(ptext, PExplanation) <=> pout.parsed.explanation # <<>>
        /\ ~Complete(pout.parsed)

C11_Witness ==
    /\ pout.ran
    /\ ~HasLine(ptext, PCorrect)
    /\ pout.parsed.question # <<>>
    /\ DOMAIN pout.parsed.options = Labels
    /\ NumProse(ptext) > 0

TopicEntered == reply.cmd = "handle_topic_message" /\ reply.kind # "none"

Awaiting(u) == DictGet(user_data[u], "awaiting_topic", FALSE)

InRange(t) == MinTopicLen <= Len(t) /\ Len(t) <= MaxTopicLen

\* what /mytopic shows and what /quiz generates for is the stored topic
ReadsStoredTopic ==
    /\ reply.cmd = "mytopic"
          => reply.text = DictGet(topic_file, reply.to, DefaultTopic)
    /\ (reply.cmd = "quiz" /\ reply.kind = "question")
          => sent[reply.msg].topic = DictGet(topic_file, reply.to, DefaultTopic)

\* C12 as stated: once a user in AWAITING_TOPIC_TEXT has entered a text T of
\* 2 to 100 characters, the user's stored topic is T exactly and the user is
\* no longer awaiting a topic.
C12_TopicRoundTrip ==
    (TopicEntered /\ InRange(reply.input)) =>
        /\ DictGet(topic_file, reply.to, DefaultTopic) = reply.input
        /\ ~Awaiting(reply.to)

\* C12 amended: once a user in AWAITING_TOPIC_TEXT has entered a text T whose
\* form S without leading and trailing whitespace has 2 to 100 characters,
\* the user's stored topic is S exactly, the user is no longer awaiting a
\* topic, and /mytopic and /quiz read the stored topic.
C12_StrippedTopicRoundTrip ==
    /\ (TopicEntered /\ InRange(Strip(reply.input))) =>
          /\ DictGet(topic_file, reply.to, DefaultTopic) = Strip(reply.input)
          /\ ~Awaiting(reply.to)
    /\ ReadsStoredTopic

C12_Witness ==
    /\ reply.cmd = "mytopic"
    /\ reply.text = <<"P","y">>
    /\ ~Awaiting(reply.to)

\* the step handles a text message of a user who is in AWAITING_TOPIC_TEXT
TopicEntry ==
    /\ Handled
    /\ reply'.cmd = "handle_topic_message"
    /\ Awaiting(reply'.to)

\* the entry was turned down: store untouched, re-prompt, still awaiting
Reprompted ==
    /\ topic_file' = topic_file
    /\ reply'.kind = "topic_rejected"
    /\ DictGet(user_data'[reply'.to], "awaiting_topic", FALSE)

\* C13 as stated: a text whose length is outside [2,100], entered while in
\* AWAITING_TOPIC_TEXT, leaves the Topic Store unchanged, is answered with the
\* re-prompt and leaves the user in AWAITING_TOPIC_TEXT.
C13_OutOfRangeRejected ==
    [][ (TopicEntry /\ ~InRange(reply'.input)) => Reprompted ]_vars

\* C13 amended: the same for a text whose length without leading and
\* trailing whitespace is outside [2,100].
C13_StrippedOutOfRangeRejected ==
    [][ (TopicEntry /\ ~InRange(Strip(reply'.input))) => Reprompted ]_vars

C13_Witness ==
    /\ reply.kind = "topic_rejected"
    /\ Len(reply.input) > MaxTopicLen
    /\ Awaiting(reply.to)

NoDuplicates(l) == \A i, j \in 1..Len(l) : l[i] = l[j] => i = j

\* C14: /subscribe of a user already in the subscriber store and /unsubscribe
\* of a user not in it leave the store as it was, and the stored list, empty
\* at start, never holds a user more than once.
C14_SubscriberIdempotence ==
    [][ /\ (/\ Handled
            /\ reply'.cmd = "subscribe_daily"
            /\ reply'.to \in Elems(subscribers_file))
           => subscribers_file' = subscribers_file
        /\ (/\ Handled
            /\ reply'.cmd = "unsubscribe_daily"
            /\ reply'.to \notin Elems(subscribers_file))
           => subscribers_file' = subscribers_file
        /\ NoDuplicates(subscribers_file') ]_vars

C14_Witness ==
    /\ reply.cmd = "subscribe_daily"
    /\ reply.kind = "already_subscribed"
    /\ Len(subscribers_file) = NumUsers

\* C15: a button press (answer or explain) of a user whose session state
\* holds no question is answered with "no active quiz": nothing is graded or
\* explained, and the session states, the topic store, the subscriber store
\* and the messages shown stay as they were.
C15_NoActiveQuiz ==
    [][ (/\ Handled
         /\ reply'.cmd = "handle_answer"
         /\ ~HasQuiz(reply'.to))
        => (/\ reply'.kind = "no_active_quiz"
            /\ ~reply'.had_quiz
            /\ reply'.text = <<>>
            /\ reply'.correct = <<>>
            /\ user_data' = user_data
            /\ topic_file' = topic_file
            /\ subscribers_file' = subscribers_file
            /\ sent' = sent) ]_vars

\* a second press under a question that was stored and has been answered
C15_Witness ==
    /\ Pressed
    /\ reply.kind = "no_active_quiz"
    /\ sent[reply.msg].stored
    /\ "topic" \in DOMAIN user_data[reply.to]
    /\ ~HasQuiz(reply.to)

\* C16: when a broadcast run has finished, the subscriber store reflects
\* every /subscribe and /unsubscribe that changed it since the run loaded the
\* list: a user who subscribed last (and has not blocked the bot) is in the
\* store, a user who unsubscribed last is not.
C16_NoLostSubscriberUpdate ==
    run.done =>
        \A u \in Users :
            /\ (run.wants[u] = "in" /\ u \notin blocked)
                  => u \in Elems(subscribers_file)
            /\ run.wants[u] = "out" => u \notin Elems(subscribers_file)

\* C17: whenever a press is graded (success or failure), the correct label
\* and the explanation used are those of the question displayed in the
\* message whose button was pressed.
C17_GradedAgainstDisplayed ==
    (Pressed /\ reply.kind \in {"correct", "incorrect"}) =>
        /\ reply.correct = sent[reply.msg].quiz.correct_answer
        /\ reply.text = sent[reply.msg].quiz.explanation

\* the step leaves every user's awaiting-topic flag and the topic store alone
TopicEntryKept ==
    /\ topic_file' = topic_file
    /\ \A v \in Users :
          DictGet(user_data'[v], "awaiting_topic", FALSE)
             = DictGet(user_data[v], "awaiting_topic", FALSE)

\* the step leaves every user's stored question alone
StoredQuestionKept ==
    \A v \in Users :
        /\ ("current_quiz" \in DOMAIN user_data'[v]) <=> HasQuiz(v)
        /\ DictGet(user_data'[v], "current_quiz", EmptyParse)
              = DictGet(user_data[v], "current_quiz", EmptyParse)

\* C18: /quiz, a button press, /subscribe_daily and /unsubscribe_daily never
\* change a user's awaiting-topic flag or stored topic; a text message (a
\* topic entry, valid or not) never changes a stored question; and a text
\* message of a user who is not in AWAITING_TOPIC_TEXT changes no session
\* state, no store and no message shown, and gets no reply.
C18_TopicEntryIndependent ==
    [][ Handled =>
          /\ reply'.cmd \in {"quiz", "handle_answer", "subscribe_daily",
                             "unsubscribe_daily"} => TopicEntryKept
          /\ reply'.cmd = "handle_topic_message" => StoredQuestionKept
          /\ (reply'.cmd = "handle_topic_message" /\ ~Awaiting(reply'.to))
                => /\ reply'.kind = "none"
                   /\ user_data' = user_data
                   /\ topic_file' = topic_file
                   /\ subscribers_file' = subscribers_file
                   /\ sent' = sent ]_vars

\* a press graded for a user who is in AWAITING_TOPIC_TEXT all along
C18_Witness ==
    /\ Pressed
    /\ reply.kind \in {"correct", "incorrect"}
    /\ Awaiting(reply.to)

\* C19: the topic a question is generated for, by /quiz and by the daily
\* broadcast, is the topic the recipient has in the topic store at that
\* moment (the one that user stored last), or "C++" if the user has none.
C19_GeneratedForStoredTopic ==
    [][ /\ (Handled /\ reply'.cmd = "quiz" /\ reply'.kind = "question")
              => sent'[reply'.msg].topic
                    = DictGet(topic_file, reply'.to, DefaultTopic)
        /\ (job.pc = "loop" /\ job'.pc = "send")
              => job'.topic = DictGet(topic_file, job'.user_id, DefaultTopic)
      ]_vars

====
